---------------------------- MODULE Spec2Model ----------------------------
(***************************************************************************)
(* A model of pygslib's nonlinear module (cython_code/nonlinear.pyx): the  *)
(* Hermite-expansion anamorphosis engine.  The numerical functions read    *)
(* their arguments only, so each of their specifications draws one call's  *)
(* arguments in its initial states and its action applies the function.    *)
(* The plotting drivers share the module-level dictionary ana_options.     *)
(*                                                                         *)
(* Arrays are functions over 0..n-1, as indexed in the source.  A double   *)
(* is modelled exactly, as an element of the field Q(sqrt 2, sqrt 3): the  *)
(* tuple <<a, b, c, d, q>> stands for (a + b*sqrt2 + c*sqrt3 + d*sqrt6)/q. *)
(* This field holds every square root the recurrence takes for K <= 4.     *)
(* A C float (the accumulators declared `cdef float`) keeps FloatMant bits *)
(* of mantissa and is rounded to nearest, ties to even, on assignment.     *)
(***************************************************************************)
EXTENDS Integers, Sequences, FiniteSets, TLC

VARIABLES fn, args, ret, ana_options

vars == <<fn, args, ret, ana_options>>

\* the module-level dictionary of plotting options, as the module creates it
AnaDefaults ==
    [dt_pt_color |-> "grey", dt_pt_line |-> "-", dt_pt_label |-> "data",
     ex_pt_color |-> "black", ex_pt_line |-> "--", ex_pt_label |-> "exp point",
     ana_pt_color |-> "orange", ana_pt_line |-> "--", ana_pt_label |-> "ana point",
     ex_ana_pt_color |-> "green", ex_ana_pt_line |-> "-", ex_ana_pt_label |-> "ana point(fixed)",
     ana_blk_color |-> "red", ana_blk_line |-> "--", ana_blk_label |-> "ana block",
     ex_ana_blk_color |-> "indigo", ex_ana_blk_line |-> "-", ex_ana_blk_label |-> "ana block(fixed)"]

(***************************************************************************)
(* Results of a call.                                                      *)
(***************************************************************************)
Pending == [status |-> "pending"]

AssertionError == [status |-> "error", kind |-> "AssertionError"]

ValueError == [status |-> "error", kind |-> "ValueError"]

IndexError == [status |-> "error", kind |-> "IndexError"]

Returned == ret.status = "ok"

Raised == ret.status = "error"

(***************************************************************************)
(* Exact arithmetic on doubles.                                            *)
(***************************************************************************)
Abs(n) == IF n < 0 THEN -n ELSE n

RECURSIVE GCD(_, _)
GCD(m, n) == IF n = 0 THEN m ELSE GCD(n, m % n)

\* the tuple in lowest terms, with a positive denominator
Norm(t) ==
    IF t[5] = 1 THEN t
    ELSE LET s == IF t[5] < 0 THEN -1 ELSE 1
             g == GCD(GCD(GCD(Abs(t[1]), Abs(t[2])), GCD(Abs(t[3]), Abs(t[4]))), Abs(t[5]))
         IN  <<(s * t[1]) \div g, (s * t[2]) \div g, (s * t[3]) \div g, (s * t[4]) \div g,
               (s * t[5]) \div g>>

I(n) == <<n, 0, 0, 0, 1>>

Frac(n, d) == Norm(<<n, 0, 0, 0, d>>)

Add(x, y) ==
    Norm(<<x[1] * y[5] + y[1] * x[5], x[2] * y[5] + y[2] * x[5],
           x[3] * y[5] + y[3] * x[5], x[4] * y[5] + y[4] * x[5], x[5] * y[5]>>)

Neg(x) == <<-x[1], -x[2], -x[3], -x[4], x[5]>>

Sub(x, y) == Add(x, Neg(y))

Mul(x, y) ==
    Norm(<<x[1] * y[1] + 2 * x[2] * y[2] + 3 * x[3] * y[3] + 6 * x[4] * y[4],
           x[1] * y[2] + x[2] * y[1] + 3 * (x[3] * y[4] + x[4] * y[3]),
           x[1] * y[3] + x[3] * y[1] + 2 * (x[2] * y[4] + x[4] * y[2]),
           x[1] * y[4] + x[4] * y[1] + x[2] * y[3] + x[3] * y[2],
           x[5] * y[5]>>)

IsRational(x) == x[2] = 0 /\ x[3] = 0 /\ x[4] = 0

\* x / y for a rational, nonzero y
Div(x, y) == Mul(x, Norm(<<y[5], 0, 0, 0, y[1]>>))

\* the sign of a rational
Sign(x) == IF x[1] > 0 THEN 1 ELSE IF x[1] < 0 THEN -1 ELSE 0

\* np.nan: the one value that is no number
NaN == <<0, 0, 0, 0, 0>>

isnan(x) == x[5] = 0

\* comparisons of rational doubles; every comparison with NaN is false
Le(x, y) == ~isnan(x) /\ ~isnan(y) /\ x[1] * y[5] <= y[1] * x[5]

Lt(x, y) == ~isnan(x) /\ ~isnan(y) /\ x[1] * y[5] < y[1] * x[5]

Ge(x, y) == Le(y, x)

Gt(x, y) == Lt(y, x)

RECURSIVE Pow(_, _)
Pow(x, n) == IF n = 0 THEN I(1) ELSE Mul(x, Pow(x, n - 1))

\* sqrt(n) of a positive integer n = s*s*t with t squarefree in {1, 2, 3, 6}
Sqrt(n) ==
    LET s == CHOOSE u \in 1..n :
                 /\ n % (u * u) = 0
                 /\ \A v \in (u + 1)..n : n % (v * v) # 0
        t == n \div (s * s)
    IN  CASE t = 1 -> <<s, 0, 0, 0, 1>>
          [] t = 2 -> <<0, s, 0, 0, 1>>
          [] t = 3 -> <<0, 0, s, 0, 1>>
          [] t = 6 -> <<0, 0, 0, s, 1>>

\* 1/sqrt(n) = sqrt(n)/n
InvSqrt(n) == Div(Sqrt(n), I(n))

\* sqrt(k/float(m)) = sqrt(k*m)/m
SqrtRatio(k, m) == Div(Sqrt(k * m), I(m))

(***************************************************************************)
(* Arrays.                                                                 *)
(***************************************************************************)
PyLen(v) == Cardinality(DOMAIN v)

Vectors(S, lo, hi) == UNION {[0..(n - 1) -> S] : n \in lo..hi}

RECURSIVE SumInts(_, _)
SumInts(v, n) == IF n = 0 THEN 0 ELSE v[n - 1] + SumInts(v, n - 1)

(***************************************************************************)
(* recurrentH(y, K): the normalized Hermite polynomials by recurrence.     *)
(***************************************************************************)
HermMaxN == 3

HermMaxK == 3

HermYVals == {-1, 0, 1, 2}

\* H[k+1,:] = -1/np.sqrt(k+1)*y*H[k,:] - np.sqrt(k/float(k+1))*H[k-1,:], with
\* Python 2 integer division k/(k+1) = 0 in place of k/float(k+1)
HermiteRowIntDiv(H, y, k) ==
    [j \in DOMAIN y |-> Mul(Mul(Neg(InvSqrt(k + 1)), I(y[j])), H[k][j])]

\* H[k+1,:] = -1/np.sqrt(k+1)*y*H[k,:] - np.sqrt(k/float(k+1))*H[k-1,:]
HermiteRow(H, y, k) ==
    [j \in DOMAIN y |->
        Sub(Mul(Mul(Neg(InvSqrt(k + 1)), I(y[j])), H[k][j]),
            Mul(SqrtRatio(k, k + 1), H[k - 1][j]))]

\* for k in range(1,K)
RECURSIVE HermiteLoop(_, _, _, _)
HermiteLoop(H, y, k, K) ==
    IF k >= K THEN H
    ELSE HermiteLoop([H EXCEPT ![k + 1] = HermiteRow(H, y, k)], y, k + 1, K)

\* recurrentH asserting K >= 0 for K >= 1
recurrentHLoose(y, K) ==
    IF ~(K >= 0) THEN AssertionError
    ELSE LET ones == [k \in 0..K |-> [j \in DOMAIN y |-> I(1)]]
             H1 == IF K >= 1 THEN [ones EXCEPT ![1] = [j \in DOMAIN y |-> Neg(I(y[j]))]]
                   ELSE ones
         IN  [status |-> "ok", H |-> HermiteLoop(H1, y, 1, K)]

recurrentH(y, K) ==
    IF ~(K >= 1) THEN AssertionError
    ELSE LET ones == [k \in 0..K |-> [j \in DOMAIN y |-> I(1)]]
             H1 == [ones EXCEPT ![1] = [j \in DOMAIN y |-> Neg(I(y[j]))]]
         IN  [status |-> "ok", H |-> HermiteLoop(H1, y, 1, K)]

InitHermite ==
    /\ fn = "recurrentH"
    /\ args \in {[y |-> y, K |-> K] : y \in Vectors(HermYVals, 0, HermMaxN), K \in 0..HermMaxK}
    /\ ret = Pending
    /\ ana_options = AnaDefaults

Call_recurrentH ==
    /\ fn = "recurrentH"
    /\ ret = Pending
    /\ ret' = recurrentH(args.y, args.K)
    /\ UNCHANGED <<fn, args, ana_options>>

SpecHermite == InitHermite /\ [][Call_recurrentH]_vars

\* C10: recurrentH(y, K) with K >= 1 returns K+1 rows of len(y) columns; row 0 is
\* all ones, row 1 is -y, and every row k+1 (1 <= k <= K-1) is
\* -(1/sqrt(k+1))*y*row k - sqrt(k/(k+1))*row k-1 of the returned matrix (stated
\* multiplied through by sqrt(k+1)); for K = 2
\* and y = [0] the result is [[1], [0], [-1/sqrt(2)]].
C10_RecurrentH ==
    (fn = "recurrentH" /\ ret # Pending /\ args.K >= 1) =>
        /\ Returned
        /\ DOMAIN ret.H = 0..args.K
        /\ \A k \in 0..args.K : DOMAIN ret.H[k] = 0..(PyLen(args.y) - 1)
        /\ \A j \in DOMAIN args.y :
              /\ ret.H[0][j] = I(1)
              /\ ret.H[1][j] = I(-args.y[j])
              /\ \A k \in 1..(args.K - 1) :
                    Mul(Sqrt(k + 1), ret.H[k + 1][j]) =
                        Sub(Neg(Mul(I(args.y[j]), ret.H[k][j])),
                            Mul(Sqrt(k), ret.H[k - 1][j]))
        /\ (args.K = 2 /\ args.y = [j \in {0} |-> 0]) =>
              ret.H = [k \in 0..2 |-> [j \in {0} |->
                          CASE k = 0 -> I(1) [] k = 1 -> I(0) [] k = 2 -> <<0, -1, 0, 0, 2>>]]

C10_Witness ==
    /\ fn = "recurrentH"
    /\ Returned
    /\ args.K = 3
    /\ PyLen(args.y) = 2
    /\ args.y[0] = 2
    /\ ret.H[3][0] = <<0, 0, 0, -1, 3>>

(***************************************************************************)
(* expand_anamor(PCI, H, r): the truncated Hermite series.                 *)
(***************************************************************************)
ExpMaxK == 2

ExpMaxN == 2

ExpPCIVals == {-1, 2}

ExpHVals == {-1, 2}

ExpRVals == {0, 1, 2}

\* PCI[p]*H[p,:]*r**p at column j, with the factor r**p forgotten
ExpandTermNoR(PCI, H, r, p, j) == Mul(PCI[p], H[p][j])

\* PCI[p]*H[p,:]*r**p at column j
ExpandTerm(PCI, H, r, p, j) == Mul(Mul(PCI[p], H[p][j]), Pow(r, p))

\* for p in range(1,len(PCI)): Z+=PCI[p]*H[p,:]*r**p
RECURSIVE ExpandLoop(_, _, _, _, _)
ExpandLoop(Z, PCI, H, r, p) ==
    IF p >= PyLen(PCI) THEN Z
    ELSE ExpandLoop([j \in DOMAIN Z |-> Add(Z[j], ExpandTerm(PCI, H, r, p, j))],
                    PCI, H, r, p + 1)

\* Z=np.zeros(H.shape[1]); Z[:]=PCI[0]; the loop; return Z
expand_anamor(PCI, H, r) ==
    ExpandLoop([j \in DOMAIN H[0] |-> PCI[0]], PCI, H, r, 1)

NumSet(S) == {I(v) : v \in S}

\* H has its row 0 all ones (H[0,:] = 1) and arbitrary rows 1..K
InitExpand ==
    /\ fn = "expand_anamor"
    /\ \E K \in 0..ExpMaxK, N \in 1..ExpMaxN :
          args \in [PCI : [0..K -> NumSet(ExpPCIVals)],
                    H : {[k \in 0..K |-> IF k = 0 THEN [j \in 0..(N - 1) |-> I(1)] ELSE b[k]] :
                            b \in [1..K -> [0..(N - 1) -> NumSet(ExpHVals)]]},
                    r : NumSet(ExpRVals)]
    /\ ret = Pending
    /\ ana_options = AnaDefaults

Call_expand_anamor ==
    /\ fn = "expand_anamor"
    /\ ret = Pending
    /\ ret' = [status |-> "ok", Z |-> expand_anamor(args.PCI, args.H, args.r)]
    /\ UNCHANGED <<fn, args, ana_options>>

SpecExpand == InitExpand /\ [][Call_expand_anamor]_vars

\* the sum over p = lo..K of PCI[p] * r^p * H[p][j]
RECURSIVE SeriesSum(_, _, _, _, _)
SeriesSum(PCI, H, r, j, p) ==
    IF p = 0 THEN I(0)
    ELSE Add(SeriesSum(PCI, H, r, j, p - 1), Mul(PCI[p], Mul(Pow(r, p), H[p][j])))

\* C9: for PCI of length K+1 and H with K+1 rows and N columns, expand_anamor(PCI, H, r)
\* returns a vector of length N whose element j is
\* PCI[0] + sum over p = 1..K of PCI[p] * r^p * H[p, j]; with r = 0 every element
\* equals PCI[0] whatever H is.
C9_ExpandAnamor ==
    (fn = "expand_anamor" /\ ret # Pending) =>
        /\ Returned
        /\ DOMAIN ret.Z = DOMAIN args.H[0]
        /\ \A j \in DOMAIN ret.Z :
              /\ ret.Z[j] = Add(args.PCI[0],
                                SeriesSum(args.PCI, args.H, args.r, j, PyLen(args.PCI) - 1))
              /\ args.r = I(0) => ret.Z[j] = args.PCI[0]

C9_Witness ==
    /\ fn = "expand_anamor"
    /\ Returned
    /\ PyLen(args.PCI) = 3
    /\ PyLen(ret.Z) = 2
    /\ args.r = I(2)
    /\ ret.Z[1] # args.PCI[0]
    /\ ret.Z[0] # ret.Z[1]

(***************************************************************************)
(* fit_PCI(z, y, H, meanz): the Hermite coefficients of an empirical table. *)
(***************************************************************************)
FitMaxN == 2

FitMaxK == 2

FitZVals == {1, 3}

FitYVals == {-1, 0, 1}

FitMeanVals == {2, 5}

NonDecreasing(v) == \A i \in DOMAIN v : \A j \in DOMAIN v : i < j => v[i] <= v[j]

Increasing(v) == \A i \in DOMAIN v : \A j \in DOMAIN v : i < j => v[i] < v[j]

\* stnormpdf(x) = exp(-x**2/2)/(2*3.1415926)**.5, a C float, to three decimals
stnormpdf(x) ==
    CASE Abs(x) = 0 -> Frac(399, 1000)
      [] Abs(x) = 1 -> Frac(242, 1000)
      [] Abs(x) = 2 -> Frac(54, 1000)
      [] OTHER -> Frac(4, 1000)

\* np.mean(z)
Mean(z) == Frac(SumInts(z, PyLen(z)), PyLen(z))

\* if np.isnan(meanz): meanz = np.mean(z)  ...  PCI[0]=np.mean(z)
\* (meanz is assigned and never read again)
FitMean(z, meanz) ==
    LET meanz1 == IF isnan(meanz) THEN Mean(z) ELSE meanz
    IN  Mean(z)

\* for i in range(1,m): g[i]= stnormpdf(y[i]); PCI[p]=PCI[p] + (z[i-1]-z[i])*1/sqrt(p)*H[p-1,i]*g[i]
\* st = <<PCI, g>>
RECURSIVE FitInner(_, _, _, _, _, _, _)
FitInner(st, z, y, H, p, i, m) ==
    IF i >= m THEN st
    ELSE LET g1 == [st[2] EXCEPT ![i] = stnormpdf(y[i])]
             t == Mul(Mul(Mul(Mul(I(z[i - 1] - z[i]), I(1)), InvSqrt(p)), H[p - 1][i]), g1[i])
         IN  FitInner(<<[st[1] EXCEPT ![p] = Add(st[1][p], t)], g1>>, z, y, H, p, i + 1, m)

\* for p in range(1,n)
RECURSIVE FitOuter(_, _, _, _, _, _, _)
FitOuter(st, z, y, H, p, n, m) ==
    IF p >= n THEN st
    ELSE FitOuter(FitInner(st, z, y, H, p, 1, m), z, y, H, p + 1, n, m)

fit_PCI(z, y, H, meanz) ==
    LET n == PyLen(H)
        m == PyLen(H[0])
    IN  IF ~(PyLen(y) = PyLen(z) /\ PyLen(z) = m) THEN AssertionError
        ELSE LET PCI0 == [[p \in 0..(n - 1) |-> I(0)] EXCEPT ![0] = FitMean(z, meanz)]
                 g0 == [i \in 0..(m - 1) |-> I(0)]
                 st == FitOuter(<<PCI0, g0>>, z, y, H, 1, n, m)
             IN  [status |-> "ok", PCI |-> st[1], g |-> st[2]]

\* the Hermite matrices handed to fit_PCI: recurrentH of some grid, or one row of ones
FitMatrices ==
    {recurrentH(yy, K).H : yy \in {v \in Vectors(FitYVals, 1, FitMaxN) : Increasing(v)},
                           K \in 1..FitMaxK}
    \cup {[k \in {0} |-> [j \in 0..(n - 1) |-> I(1)]] : n \in 1..FitMaxN}

InitFit ==
    /\ fn = "fit_PCI"
    /\ args \in [z : {v \in Vectors(FitZVals, 1, FitMaxN) : NonDecreasing(v)},
                 y : {v \in Vectors(FitYVals, 1, FitMaxN) : Increasing(v)},
                 H : FitMatrices,
                 meanz : {NaN} \cup NumSet(FitMeanVals)]
    /\ ret = Pending
    /\ ana_options = AnaDefaults

Call_fit_PCI ==
    /\ fn = "fit_PCI"
    /\ ret = Pending
    /\ ret' = fit_PCI(args.z, args.y, args.H, args.meanz)
    /\ UNCHANGED <<fn, args, ana_options>>

SpecFit == InitFit /\ [][Call_fit_PCI]_vars

\* C1: for every call fit_PCI(z, y, H, meanz) that passes the shape check, PCI[0]
\* equals meanz when meanz is supplied (not NaN), and the arithmetic mean of z when
\* meanz is left unset (NaN).
C1_MeanzOverrides ==
    (fn = "fit_PCI" /\ Returned) =>
        ret.PCI[0] = (IF isnan(args.meanz) THEN Frac(SumInts(args.z, PyLen(args.z)), PyLen(args.z))
                      ELSE args.meanz)

(***************************************************************************)
(* The control-point locators: calautorized, calautorized_blk and          *)
(* findcontrolpoints.  They only compare, so the curves hold integers.     *)
(* A `cdef int` that its loop never assigns (an empty range) is returned   *)
(* uninitialized: any of the values Garbage.                               *)
(***************************************************************************)
LocMaxN == 5

LocVals == {0, 1, 2}

None == <<>>

Some(v) == <<v>>

Garbage == {-1, 1, 7}

Min(v) == CHOOSE x \in {v[k] : k \in DOMAIN v} : \A k \in DOMAIN v : x <= v[k]

Max(v) == CHOOSE x \in {v[k] : k \in DOMAIN v} : \A k \in DOMAIN v : x >= v[k]

\* zana.shape[0]/2 (Python 2 division of integers)
Mid(zana) == PyLen(zana) \div 2

\* for jj in range(zraw.shape[0]-1, 0, -1): if zraw[jj]<zpmax: break
RECURSIVE Cal_jj(_, _, _)
Cal_jj(zraw, zpmax, jj) ==
    IF zraw[jj] < zpmax THEN jj
    ELSE IF jj - 1 > 0 THEN Cal_jj(zraw, zpmax, jj - 1) ELSE jj

\* for ii in range(0, zraw.shape[0]-1): if zraw[ii]>zpmin: break
RECURSIVE Cal_ii(_, _, _)
Cal_ii(zraw, zpmin, ii) ==
    IF zraw[ii] > zpmin THEN ii
    ELSE IF ii + 1 < PyLen(zraw) - 1 THEN Cal_ii(zraw, zpmin, ii + 1) ELSE ii

\* the lower test of calautorized, without the comparison with zraw[ii]
Cal_StopLowNoRaw(zana, zraw, gauss, ii, i) ==
    zana[i - 1] > zana[i] \/ gauss[i - 1] < gauss[ii]

\* if zana[i-1] < zraw[ii] or zana[i-1] > zana[i] or gauss[i-1]<gauss[ii]: break
Cal_StopLow(zana, zraw, gauss, ii, i) ==
    zana[i - 1] < zraw[ii] \/ zana[i - 1] > zana[i] \/ gauss[i - 1] < gauss[ii]

\* the lower scan of calautorized running down to index 1
RECURSIVE Cal_iToOne(_, _, _, _, _)
Cal_iToOne(zana, zraw, gauss, ii, i) ==
    IF Cal_StopLow(zana, zraw, gauss, ii, i) THEN i
    ELSE IF i - 1 > 0 THEN Cal_iToOne(zana, zraw, gauss, ii, i - 1) ELSE i

\* for i in range(zana.shape[0]/2, 1, -1)
RECURSIVE Cal_i(_, _, _, _, _)
Cal_i(zana, zraw, gauss, ii, i) ==
    IF Cal_StopLow(zana, zraw, gauss, ii, i) THEN i
    ELSE IF i - 1 > 1 THEN Cal_i(zana, zraw, gauss, ii, i - 1) ELSE i

\* the upper test of calautorized, without the comparison of neighbours
Cal_StopHighNoMono(zana, zraw, gauss, jj, j) ==
    zana[j + 1] > zraw[jj] \/ gauss[j + 1] > gauss[jj]

\* if zana[j+1] > zraw[jj] or zana[j+1] < zana[j] or gauss[j+1]>gauss[jj]: break
Cal_StopHigh(zana, zraw, gauss, jj, j) ==
    zana[j + 1] > zraw[jj] \/ zana[j + 1] < zana[j] \/ gauss[j + 1] > gauss[jj]

\* for j in range(zana.shape[0]/2, zana.shape[0]-1, +1)
RECURSIVE Cal_j(_, _, _, _, _)
Cal_j(zana, zraw, gauss, jj, j) ==
    IF Cal_StopHigh(zana, zraw, gauss, jj, j) THEN j
    ELSE IF j + 1 < PyLen(zana) - 1 THEN Cal_j(zana, zraw, gauss, jj, j + 1) ELSE j

\* gi, gj: what the uninitialized i, j hold when their loops do not run
calautorized(zana, zraw, gauss, zpmin, zpmax, gi, gj) ==
    LET zpmin1 == IF zpmin = None THEN Min(zraw) ELSE zpmin[1]
        zpmax1 == IF zpmax = None THEN Max(zraw) ELSE zpmax[1]
        jj == Cal_jj(zraw, zpmax1, PyLen(zraw) - 1)
        ii == Cal_ii(zraw, zpmin1, 0)
        i == IF Mid(zana) > 1 THEN Cal_i(zana, zraw, gauss, ii, Mid(zana)) ELSE gi
        j == IF Mid(zana) < PyLen(zana) - 1 THEN Cal_j(zana, zraw, gauss, jj, Mid(zana)) ELSE gj
    IN  [status |-> "ok", i |-> i, j |-> j, ii |-> ii, jj |-> jj]

\* if zana[i-1] < zpmin or zana[i-1] > zana[i] or gauss[i-1]<gauss[ii]: break
Blk_StopLow(zana, gauss, zpmin, ii, i) ==
    zana[i - 1] < zpmin \/ zana[i - 1] > zana[i] \/ gauss[i - 1] < gauss[ii]

\* for i in range(zana.shape[0]/2, 1, -1)
RECURSIVE Blk_i(_, _, _, _, _)
Blk_i(zana, gauss, zpmin, ii, i) ==
    IF Blk_StopLow(zana, gauss, zpmin, ii, i) THEN i
    ELSE IF i - 1 > 1 THEN Blk_i(zana, gauss, zpmin, ii, i - 1) ELSE i

\* if zana[j+1] > zpmax or zana[j+1] < zana[j] or gauss[j+1]>gauss[jj]: break
Blk_StopHigh(zana, gauss, zpmax, jj, j) ==
    zana[j + 1] > zpmax \/ zana[j + 1] < zana[j] \/ gauss[j + 1] > gauss[jj]

\* for j in range(zana.shape[0]/2, zana.shape[0]-1, +1)
RECURSIVE Blk_j(_, _, _, _, _)
Blk_j(zana, gauss, zpmax, jj, j) ==
    IF Blk_StopHigh(zana, gauss, zpmax, jj, j) THEN j
    ELSE IF j + 1 < PyLen(zana) - 1 THEN Blk_j(zana, gauss, zpmax, jj, j + 1) ELSE j

calautorized_blk(zana, gauss, zpmin, zpmax, gi, gj) ==
    LET jj == PyLen(zana) - 1
        ii == 0
        i == IF Mid(zana) > 1 THEN Blk_i(zana, gauss, zpmin, ii, Mid(zana)) ELSE gi
        j == IF Mid(zana) < PyLen(zana) - 1 THEN Blk_j(zana, gauss, zpmax, jj, Mid(zana)) ELSE gj
    IN  [status |-> "ok", i |-> i, j |-> j, ii |-> ii, jj |-> jj]

\* for jj in range(zraw.shape[0]-1, 0, -1): if zraw[jj]<=zpmax: break
RECURSIVE Fcp_jj(_, _, _)
Fcp_jj(zraw, zpmax, jj) ==
    IF zraw[jj] <= zpmax THEN jj
    ELSE IF jj - 1 > 0 THEN Fcp_jj(zraw, zpmax, jj - 1) ELSE jj

\* for ii in range(0, zraw.shape[0]-1): if zraw[ii]>=zpmin: break
RECURSIVE Fcp_ii(_, _, _)
Fcp_ii(zraw, zpmin, ii) ==
    IF zraw[ii] >= zpmin THEN ii
    ELSE IF ii + 1 < PyLen(zraw) - 1 THEN Fcp_ii(zraw, zpmin, ii + 1) ELSE ii

\* for i in range(zana.shape[0]/2, 1, -1): if zana[i-1] <= zamin: break
RECURSIVE Fcp_i(_, _, _)
Fcp_i(zana, zamin, i) ==
    IF zana[i - 1] <= zamin THEN i
    ELSE IF i - 1 > 1 THEN Fcp_i(zana, zamin, i - 1) ELSE i

\* for j in range(zana.shape[0]/2, zana.shape[0]-1, +1): if zana[j+1] >= zamax: break
RECURSIVE Fcp_j(_, _, _)
Fcp_j(zana, zamax, j) ==
    IF zana[j + 1] >= zamax THEN j
    ELSE IF j + 1 < PyLen(zana) - 1 THEN Fcp_j(zana, zamax, j + 1) ELSE j

\* v[k] of a Python sequence: a negative index counts from the end
InRange(v, k) == -PyLen(v) <= k /\ k < PyLen(v)

PyAt(v, k) == IF k < 0 THEN v[k + PyLen(v)] ELSE v[k]

\* the four exit assertions, the last of them left out
Fcp_ExitNoLast(zana, zraw, gauss, i, j, ii, jj) ==
    /\ PyAt(zana, j) <= zraw[jj]
    /\ PyAt(zana, i) >= zraw[ii]
    /\ PyAt(gauss, j) <= gauss[jj]

\* the four exit assertions, the first of them left out
Fcp_ExitNoFirst(zana, zraw, gauss, i, j, ii, jj) ==
    /\ PyAt(zana, i) >= zraw[ii]
    /\ PyAt(gauss, j) <= gauss[jj]
    /\ PyAt(gauss, i) >= gauss[ii]

\* assert zana[j] <= zraw[jj]; assert zana[i] >= zraw[ii];
\* assert gauss[j] <= gauss[jj]; assert gauss[i] >= gauss[ii]
Fcp_Exit(zana, zraw, gauss, i, j, ii, jj) ==
    /\ PyAt(zana, j) <= zraw[jj]
    /\ PyAt(zana, i) >= zraw[ii]
    /\ PyAt(gauss, j) <= gauss[jj]
    /\ PyAt(gauss, i) >= gauss[ii]

findcontrolpoints(zana, zraw, gauss, zpmin, zpmax, zamin, zamax, gi, gj) ==
    IF ~(zamax < zamin /\ zpmax < zpmin /\ zamax <= zpmax /\ zamin >= zpmin)
    THEN AssertionError
    ELSE LET jj == Fcp_jj(zraw, zpmax, PyLen(zraw) - 1)
             ii == Fcp_ii(zraw, zpmin, 0)
             i == IF Mid(zana) > 1 THEN Fcp_i(zana, zamin, Mid(zana)) ELSE gi
             j == IF Mid(zana) < PyLen(zana) - 1 THEN Fcp_j(zana, zamax, Mid(zana)) ELSE gj
         IN  IF ~(InRange(zana, i) /\ InRange(zana, j)) THEN IndexError
             ELSE IF ~Fcp_Exit(zana, zraw, gauss, i, j, ii, jj) THEN AssertionError
             ELSE [status |-> "ok", i |-> i, j |-> j, ii |-> ii, jj |-> jj]

\* a Gaussian grid of length N: strictly increasing
Grid(N) == [k \in 0..(N - 1) |-> k - (N \div 2)]

Curves(N) == [0..(N - 1) -> LocVals]

RawCurves(N) == {v \in Curves(N) : NonDecreasing(v)}

OptVals == {None} \cup {Some(v) : v \in LocVals}

\* the bounds handed to findcontrolpoints: every choice that passes its first two
\* entry assertions, and the choices with all four bounds equal
FcpBounds ==
    {b \in [zpmin : LocVals, zpmax : LocVals, zamin : LocVals, zamax : LocVals] :
        \/ b.zamax < b.zamin /\ b.zpmax < b.zpmin
        \/ b.zamax = b.zamin /\ b.zpmax = b.zpmin /\ b.zamin = b.zpmin}

\* the values an uninitialized loop index may hold; one value when the loop runs
GarbageIf(unassigned) == IF unassigned THEN Garbage ELSE {0}

InitLoc ==
    /\ ret = Pending
    /\ ana_options = AnaDefaults
    /\ \E N \in 2..LocMaxN :
          \/ /\ fn = "calautorized"
             /\ args \in [zana : Curves(N), zraw : RawCurves(N), gauss : {Grid(N)},
                          zpmin : OptVals, zpmax : OptVals]
          \/ /\ fn = "calautorized_blk"
             /\ args \in [zana : Curves(N), gauss : {Grid(N)}, zpmin : LocVals, zpmax : LocVals]
          \/ /\ fn = "findcontrolpoints"
             /\ \E b \in FcpBounds :
                   args \in [zana : Curves(N), zraw : RawCurves(N), gauss : {Grid(N)},
                             zpmin : {b.zpmin}, zpmax : {b.zpmax},
                             zamin : {b.zamin}, zamax : {b.zamax}]

Call_calautorized ==
    /\ fn = "calautorized"
    /\ ret = Pending
    /\ \E gi \in GarbageIf(Mid(args.zana) <= 1), gj \in GarbageIf(Mid(args.zana) >= PyLen(args.zana) - 1) :
          ret' = calautorized(args.zana, args.zraw, args.gauss, args.zpmin, args.zpmax, gi, gj)
    /\ UNCHANGED <<fn, args, ana_options>>

Call_calautorized_blk ==
    /\ fn = "calautorized_blk"
    /\ ret = Pending
    /\ \E gi \in GarbageIf(Mid(args.zana) <= 1), gj \in GarbageIf(Mid(args.zana) >= PyLen(args.zana) - 1) :
          ret' = calautorized_blk(args.zana, args.gauss, args.zpmin, args.zpmax, gi, gj)
    /\ UNCHANGED <<fn, args, ana_options>>

Call_findcontrolpoints ==
    /\ fn = "findcontrolpoints"
    /\ ret = Pending
    /\ \E gi \in GarbageIf(Mid(args.zana) <= 1), gj \in GarbageIf(Mid(args.zana) >= PyLen(args.zana) - 1) :
          ret' = findcontrolpoints(args.zana, args.zraw, args.gauss, args.zpmin, args.zpmax,
                                   args.zamin, args.zamax, gi, gj)
    /\ UNCHANGED <<fn, args, ana_options>>

NextLoc == Call_calautorized \/ Call_calautorized_blk \/ Call_findcontrolpoints

SpecLoc == InitLoc /\ [][NextLoc]_vars

\* C4: every quadruple (i, j, ii, jj) returned by calautorized (zraw non-decreasing,
\* gauss strictly increasing, any practical bounds including the defaults) satisfies
\* zana[i] >= zraw[ii], zana[j] <= zraw[jj], gauss[i] >= gauss[ii] and
\* gauss[j] <= gauss[jj].  Stated for the curves of length >= 4, whose four indices
\* are all assigned.
C4_CalOrdering ==
    (fn = "calautorized" /\ Returned /\ PyLen(args.zana) >= 4) =>
        /\ args.zana[ret.i] >= args.zraw[ret.ii]
        /\ args.zana[ret.j] <= args.zraw[ret.jj]
        /\ args.gauss[ret.i] >= args.gauss[ret.ii]
        /\ args.gauss[ret.j] <= args.gauss[ret.jj]

\* C5: every quadruple returned by calautorized or findcontrolpoints on a
\* non-decreasing zraw satisfies i <= j and ii <= jj.  Stated for the curves of
\* length >= 4, whose four indices are all assigned.
C5_IndexOrder ==
    (fn \in {"calautorized", "findcontrolpoints"} /\ Returned /\ PyLen(args.zana) >= 4) =>
        ret.i <= ret.j /\ ret.ii <= ret.jj

\* C6: findcontrolpoints either returns a quadruple with zana[j] <= zraw[jj],
\* zana[i] >= zraw[ii], gauss[j] <= gauss[jj] and gauss[i] >= gauss[ii], or ends in
\* an error; it never returns a quadruple that breaks one of the four.
C6_FcpPostcondition ==
    (fn = "findcontrolpoints" /\ ret # Pending) =>
        \/ Raised
        \/ /\ Returned
           /\ PyAt(args.zana, ret.j) <= args.zraw[ret.jj]
           /\ PyAt(args.zana, ret.i) >= args.zraw[ret.ii]
           /\ PyAt(args.gauss, ret.j) <= args.gauss[ret.jj]
           /\ PyAt(args.gauss, ret.i) >= args.gauss[ret.ii]

C6_Witness ==
    /\ fn = "findcontrolpoints"
    /\ Returned
    /\ PyLen(args.zana) = 4
    /\ ret.jj = 3
    /\ args.zana[ret.j] < args.zraw[ret.jj]

(***************************************************************************)
(* np.interp(x, xp, fp), as Y2Z and Z2Y_linear call it: xp increasing, or  *)
(* of two points with x beyond one of them.                                *)
(***************************************************************************)
NpInterp(x, xp, fp) ==
    LET n == PyLen(xp)
    IN  IF isnan(x) THEN NaN
        ELSE IF Gt(x, xp[n - 1]) THEN fp[n - 1]
        ELSE IF Lt(x, xp[0]) THEN fp[0]
        ELSE LET j == CHOOSE k \in 0..(n - 1) :
                          Le(xp[k], x) /\ \A l \in (k + 1)..(n - 1) : ~Le(xp[l], x)
             IN  IF j = n - 1 THEN fp[j]
                 ELSE IF xp[j] = x THEN fp[j]
                 ELSE Add(Mul(Div(Sub(fp[j + 1], fp[j]), Sub(xp[j + 1], xp[j])),
                              Sub(x, xp[j])), fp[j])

\* np.array([a, b])
Pair(a, b) == [k \in 0..1 |-> IF k = 0 THEN a ELSE b]

(***************************************************************************)
(* Z2Y_linear(z, zm, ym, zamin, yamin, zpmin, ypmin, zpmax, ypmax, zamax,  *)
(* yamax).  a holds the eight anchors.  An element's state is <<Y[i], the  *)
(* branches that assigned Y[i]>>.                                          *)
(***************************************************************************)
Z2YMaxN == 2

Z2YZVals == {0, 1, 2, 3, 4}

\* if z[i]<=zamin / if z[i]>=zamax / if z[i]<=zpmin / if z[i]>=zpmax /
\* if z[i]<zpmax and z[i]>zpmin
Z2Y_Test(b, z, a) ==
    CASE b = 1 -> Le(z, a.zamin)
      [] b = 2 -> Ge(z, a.zamax)
      [] b = 3 -> Le(z, a.zpmin)
      [] b = 4 -> Ge(z, a.zpmax)
      [] b = 5 -> Lt(z, a.zpmax) /\ Gt(z, a.zpmin)

\* the values of the branches, the authorized Gaussian bounds exchanged in the first two
Z2Y_ValueExchanged(b, z, zm, ym, a) ==
    CASE b = 1 -> a.yamax
      [] b = 2 -> a.yamin
      [] b = 3 -> NpInterp(z, Pair(a.zamin, a.zpmin), Pair(a.yamin, a.ypmin))
      [] b = 4 -> NpInterp(z, Pair(a.zpmax, a.zamax), Pair(a.ypmax, a.yamax))
      [] b = 5 -> NpInterp(z, zm, ym)

\* the value each branch assigns to Y[i]
Z2Y_Value(b, z, zm, ym, a) ==
    CASE b = 1 -> a.yamin
      [] b = 2 -> a.yamax
      [] b = 3 -> NpInterp(z, Pair(a.zamin, a.zpmin), Pair(a.yamin, a.ypmin))
      [] b = 4 -> NpInterp(z, Pair(a.zpmax, a.zamax), Pair(a.ypmax, a.yamax))
      [] b = 5 -> NpInterp(z, zm, ym)

\* the loop body from branch b on: a branch that fires assigns and continues
RECURSIVE Z2Y_Body(_, _, _, _, _, _)
Z2Y_Body(b, st, z, zm, ym, a) ==
    IF b > 5 THEN st
    ELSE IF Z2Y_Test(b, z, a) THEN <<Z2Y_Value(b, z, zm, ym, a), Append(st[2], b)>>
    ELSE Z2Y_Body(b + 1, st, z, zm, ym, a)

\* Y=np.zeros(z.shape[0]); for i in range(z.shape[0]): ...; return Y
Z2Y_linear(z, zm, ym, a) ==
    LET out == [i \in DOMAIN z |-> Z2Y_Body(1, <<I(0), <<>>>>, z[i], zm, ym, a)]
    IN  [status |-> "ok", Y |-> [i \in DOMAIN z |-> out[i][1]],
         fired |-> [i \in DOMAIN z |-> out[i][2]]]

NumVec(v) == [k \in DOMAIN v |-> I(v[k])]

Anchors(zamin, yamin, zpmin, ypmin, zpmax, ypmax, zamax, yamax) ==
    [zamin |-> I(zamin), yamin |-> I(yamin), zpmin |-> I(zpmin), ypmin |-> I(ypmin),
     zpmax |-> I(zpmax), ypmax |-> I(ypmax), zamax |-> I(zamax), yamax |-> I(yamax)]

\* anchors in the intended order, and every placing of the four raw anchors on {1, 3}
Z2YAnchors ==
    {Anchors(0, -3, 1, -1, 3, 1, 4, 3), Anchors(0, -4, 2, -1, 2, 2, 4, 3),
     Anchors(0, -2, 1, -1, 3, 2, 4, 5)}
    \cup {Anchors(q[1], -3, q[2], -1, q[3], 1, q[4], 3) : q \in [1..4 -> {1, 3}]}

\* tabulated [zm, ym] pairs, both increasing
Z2YTables ==
    {<<NumVec(<<1, 2, 3>>), NumVec(<<-1, 0, 1>>)>>, <<NumVec(<<0, 3>>), NumVec(<<-2, 2>>)>>,
     <<NumVec(<<1, 2, 3>>), NumVec(<<-5, 4, 6>>)>>}

InitZ2Y ==
    /\ fn = "Z2Y_linear"
    /\ \E t \in Z2YTables :
          args \in [z : Vectors(NumSet(Z2YZVals) \cup {NaN}, 1, Z2YMaxN),
                    zm : {[k \in 0..(Len(t[1]) - 1) |-> t[1][k + 1]]},
                    ym : {[k \in 0..(Len(t[2]) - 1) |-> t[2][k + 1]]},
                    a : Z2YAnchors]
    /\ ret = Pending
    /\ ana_options = AnaDefaults

Call_Z2Y_linear ==
    /\ fn = "Z2Y_linear"
    /\ ret = Pending
    /\ ret' = Z2Y_linear(args.z, args.zm, args.ym, args.a)
    /\ UNCHANGED <<fn, args, ana_options>>

SpecZ2Y == InitZ2Y /\ [][Call_Z2Y_linear]_vars

\* the value on the line through (x0, f0) and (x1, f1) at x
Line(x, x0, f0, x1, f1) == Add(f0, Div(Mul(Sub(x, x0), Sub(f1, f0)), Sub(x1, x0)))

\* linear interpolation of x in an increasing table, constant beyond its ends
TableValue(x, xm, fm) ==
    LET n == PyLen(xm)
    IN  IF Le(x, xm[0]) THEN fm[0]
        ELSE IF Ge(x, xm[n - 1]) THEN fm[n - 1]
        ELSE LET k == CHOOSE l \in 0..(n - 2) : Le(xm[l], x) /\ Lt(x, xm[l + 1])
             IN  Line(x, xm[k], fm[k], xm[k + 1], fm[k + 1])

\* the branch the claim assigns to z, in its priority order (0: none)
Z2Y_Region(z, a) ==
    IF Le(z, a.zamin) THEN 1
    ELSE IF Ge(z, a.zamax) THEN 2
    ELSE IF Le(z, a.zpmin) THEN 3
    ELSE IF Ge(z, a.zpmax) THEN 4
    ELSE IF Lt(a.zpmin, z) /\ Lt(z, a.zpmax) THEN 5
    ELSE 0

Z2Y_RegionValue(b, z, zm, ym, a) ==
    CASE b = 1 -> a.yamin
      [] b = 2 -> a.yamax
      [] b = 3 -> Line(z, a.zamin, a.yamin, a.zpmin, a.ypmin)
      [] b = 4 -> Line(z, a.zpmax, a.ypmax, a.zamax, a.yamax)
      [] b = 5 -> TableValue(z, zm, ym)

\* C2 as claimed: Z2Y_linear assigns every input element by exactly one of the
\* five branches, in the priority order z <= zamin, z >= zamax, z <= zpmin,
\* z >= zpmax, zpmin < z < zpmax; no element is left at its initial 0 without a
\* branch firing, and none is written by two branches.
C2_EveryElementOneBranch ==
    (fn = "Z2Y_linear" /\ Returned) =>
        \A i \in DOMAIN args.z :
            /\ Len(ret.fired[i]) = 1
            /\ ret.fired[i][1] = Z2Y_Region(args.z[i], args.a)

\* C2, the part that holds: every element that is not NaN is assigned by exactly
\* one branch, the first in priority order whose test holds, and gets that branch's
\* value; an element that is NaN fails all five tests and is left at its initial 0.
C2_OneBranchUnlessNaN ==
    (fn = "Z2Y_linear" /\ ret # Pending) =>
        /\ Returned
        /\ DOMAIN ret.Y = DOMAIN args.z
        /\ \A i \in DOMAIN args.z :
              IF isnan(args.z[i])
              THEN ret.fired[i] = <<>> /\ ret.Y[i] = I(0)
              ELSE /\ Z2Y_Region(args.z[i], args.a) \in 1..5
                   /\ ret.fired[i] = <<Z2Y_Region(args.z[i], args.a)>>
                   /\ ret.Y[i] = Z2Y_RegionValue(Z2Y_Region(args.z[i], args.a), args.z[i],
                                                 args.zm, args.ym, args.a)

\* a NaN element returned as 0 with no branch fired, beside an interpolated one
C2_NaNLeftAtZero ==
    /\ fn = "Z2Y_linear"
    /\ Returned
    /\ args.a = Anchors(0, -4, 2, -1, 2, 2, 4, 3)
    /\ PyLen(args.z) = 2
    /\ ret.fired[0] = <<3>>
    /\ ret.Y[0] = Frac(-5, 2)
    /\ isnan(args.z[1])
    /\ ret.fired[1] = <<>>
    /\ ret.Y[1] = I(0)

(***************************************************************************)
(* Y2Z(y, PCI, zamin, yamin, zpmin, ypmin, zpmax, ypmax, zamax, yamax, r)  *)
(***************************************************************************)
Y2ZMaxN == 2

Y2ZMaxK == 2

Y2ZYVals == {-2, -1, 0, 1, 2}

Y2ZPCIVals == {-2, 1}

Y2ZRVals == {Frac(1, 2), I(1)}

\* the loop body with the first test strict
Y2Z_FixStrict(Zi, yi, a) ==
    IF Lt(yi, a.ypmin)
    THEN NpInterp(yi, Pair(a.yamin, a.ypmin), Pair(a.zamin, a.zpmin))
    ELSE IF Ge(yi, a.ypmax)
    THEN NpInterp(yi, Pair(a.ypmax, a.yamax), Pair(a.zpmax, a.zamax))
    ELSE Zi

\* if y[i]<=ypmin: Z[i]=np.interp(...); continue
\* if y[i]>=ypmax: Z[i]=np.interp(...); continue
Y2Z_Fix(Zi, yi, a) ==
    IF Le(yi, a.ypmin)
    THEN NpInterp(yi, Pair(a.yamin, a.ypmin), Pair(a.zamin, a.zpmin))
    ELSE IF Ge(yi, a.ypmax)
    THEN NpInterp(yi, Pair(a.ypmax, a.yamax), Pair(a.zpmax, a.zamax))
    ELSE Zi

\* K=PCI.shape[0]-1; H=recurrentH(y,K); Z=expand_anamor(PCI,H,r); the loop; return Z
Y2Z(y, PCI, a, r) ==
    LET K == PyLen(PCI) - 1
        Hr == recurrentH(y, K)
    IN  IF Hr.status = "error" THEN Hr
        ELSE LET Z == expand_anamor(PCI, Hr.H, r)
             IN  [status |-> "ok", Z |-> [i \in DOMAIN y |-> Y2Z_Fix(Z[i], I(y[i]), a)]]

\* anchors in the intended order (two), with the authorized and practical bounds
\* equal (two), with the practical bounds crossed, with the authorized bounds inside
Y2ZAnchors ==
    {Anchors(0, -2, 1, -1, 5, 1, 8, 2), Anchors(0, -2, 1, 0, 5, 2, 9, 3),
     Anchors(1, -1, 1, -1, 5, 1, 5, 1), Anchors(0, -1, 1, -1, 5, 1, 8, 1),
     Anchors(0, -2, 1, 1, 5, -1, 8, 2), Anchors(0, 0, 1, -1, 5, 1, 8, 0)}

InitY2Z ==
    /\ fn = "Y2Z"
    /\ args \in [y : Vectors(Y2ZYVals, 1, Y2ZMaxN),
                 PCI : Vectors(NumSet(Y2ZPCIVals), 1, Y2ZMaxK + 1),
                 a : Y2ZAnchors,
                 r : Y2ZRVals]
    /\ ret = Pending
    /\ ana_options = AnaDefaults

Call_Y2Z ==
    /\ fn = "Y2Z"
    /\ ret = Pending
    /\ ret' = Y2Z(args.y, args.PCI, args.a, args.r)
    /\ UNCHANGED <<fn, args, ana_options>>

SpecY2Z == InitY2Z /\ [][Call_Y2Z]_vars

\* two-point interpolation between (x0, f0) and (x1, f1): f0 below x0, f1 from x1
\* on, the line between them
TwoPoint(x, x0, f0, x1, f1) ==
    IF Lt(x, x0) THEN f0
    ELSE IF Ge(x, x1) THEN f1
    ELSE Line(x, x0, f0, x1, f1)

\* the expansion value of element i of the call's input
Y2Z_Expansion(i) ==
    expand_anamor(args.PCI, recurrentH(args.y, PyLen(args.PCI) - 1).H, args.r)[i]

\* C3: for every element y[i] of the input of Y2Z: if y[i] <= ypmin the output is
\* the two-point interpolation between (yamin, zamin) and (ypmin, zpmin), not the
\* expansion value; otherwise if y[i] >= ypmax it is the two-point interpolation
\* between (ypmax, zpmax) and (yamax, zamax); otherwise it is exactly
\* expand_anamor(PCI, recurrentH(y, K), r)[i].
C3_Y2ZRegions ==
    (fn = "Y2Z" /\ Returned) =>
        /\ DOMAIN ret.Z = DOMAIN args.y
        /\ \A i \in DOMAIN args.y :
              LET yi == I(args.y[i])
                  a == args.a
              IN  IF Le(yi, a.ypmin)
                  THEN ret.Z[i] = TwoPoint(yi, a.yamin, a.zamin, a.ypmin, a.zpmin)
                  ELSE IF Ge(yi, a.ypmax)
                  THEN ret.Z[i] = TwoPoint(yi, a.ypmax, a.zpmax, a.yamax, a.zamax)
                  ELSE ret.Z[i] = Y2Z_Expansion(i)

\* one call with an element overridden below (off the knots, the expansion value
\* being another) and an element strictly between the practical bounds
C3_Witness ==
    /\ fn = "Y2Z"
    /\ Returned
    /\ args.a = Anchors(0, -2, 1, 0, 5, 2, 9, 3)
    /\ PyLen(args.y) = 2
    /\ PyLen(args.PCI) = 3
    /\ args.y[0] = -1
    /\ ret.Z[0] = Frac(1, 2)
    /\ Y2Z_Expansion(0) # ret.Z[0]
    /\ args.y[1] = 1
    /\ ret.Z[1] = Y2Z_Expansion(1)

(***************************************************************************)
(* get_r and get_ro: the roots of f_var_Zv and f_covar_ZvZv on [0, 1].     *)
(***************************************************************************)
\* bits in the significand of a C float
FloatMant == 24

SolveMaxK == 3

\* the points of the bracket [0, 1] at which a root is told apart
SolveGrid == <<I(0), Frac(1, 2), I(1)>>

\* values of PCI[1:] of a vector of K + 1 entries: 4097 * 4097 is the least odd
\* square with more than 24 bits, and 4097 * 4097 * 4^K is a 32-bit integer up to K = 3
SolvePCIVals(K) == IF K <= 3 THEN {0, 1, 4097} ELSE {0, 1}

\* targets: by their distance to the sum of squares of PCI[1:], and -1 and 0
SolveOffsets == {-1, 0, 1}

\* (r, s) of get_ro: halved for the vectors of small entries only, whose sums then
\* stay 32-bit integers over a common denominator
SolveRS(PCI) ==
    IF \E p \in DOMAIN PCI : Gt(PCI[p], I(1)) THEN {<<I(1), I(1)>>}
    ELSE {<<I(1), I(1)>>, <<Frac(1, 2), I(1)>>, <<Frac(1, 2), Frac(1, 2)>>}

RECURSIVE Pow2(_)
Pow2(n) == IF n = 0 THEN 1 ELSE 2 * Pow2(n - 1)

\* the number of low bits of n that a significand of FloatMant bits cannot hold
RECURSIVE ExcessBits(_, _)
ExcessBits(n, s) ==
    IF n \div Pow2(s) < Pow2(FloatMant) THEN s ELSE ExcessBits(n, s + 1)

\* (float)x of a double x = n / 2^b: round to nearest, ties to even
F32(x) ==
    LET n == Abs(x[1])
        s == ExcessBits(n, 0)
        u == Pow2(s)
        q == n \div u
        rem == n % u
        m == IF 2 * rem > u \/ (2 * rem = u /\ q % 2 = 1) THEN q + 1 ELSE q
    IN  IF s = 0 THEN x ELSE Norm(<<Sign(x) * m * u, 0, 0, 0, x[5]>>)

\* cdef float a; a=0.; for i in range(1,len(PCI)): a+=PCI[i]**2. * r**(2.*i)
RECURSIVE VarLoop(_, _, _, _)
VarLoop(a, r, PCI, i) ==
    IF i >= PyLen(PCI) THEN a
    ELSE VarLoop(F32(Add(a, Mul(Pow(PCI[i], 2), Pow(r, 2 * i)))), r, PCI, i + 1)

\* return a-Var_Zv
f_var_Zv(r, PCI, Var_Zv) == Sub(VarLoop(I(0), r, PCI, 1), Var_Zv)

\* cdef float a; a=0.; for i in range(1,len(PCI)): a+=PCI[i]**2. * r**i * s**i * ro**i
RECURSIVE CovarLoop(_, _, _, _, _, _)
CovarLoop(a, ro, s, r, PCI, i) ==
    IF i >= PyLen(PCI) THEN a
    ELSE CovarLoop(F32(Add(a, Mul(Mul(Mul(Pow(PCI[i], 2), Pow(r, i)), Pow(s, i)),
                                  Pow(ro, i)))),
                   ro, s, r, PCI, i + 1)

\* return a-Covar_ZvZv
f_covar_ZvZv(ro, s, r, PCI, Covar_ZvZv) == Sub(CovarLoop(I(0), ro, s, r, PCI, 1), Covar_ZvZv)

\* does f, given by its values at SolveGrid, vanish at point k or change sign next to it
RootAt(f, k) ==
    \/ Sign(f[k]) = 0
    \/ k > 1 /\ Sign(f[k - 1]) * Sign(f[k]) < 0
    \/ k < Len(SolveGrid) /\ Sign(f[k]) * Sign(f[k + 1]) < 0

\* scipy.optimize.brentq(f, a=0, b=1): the outcomes its contract allows.  f(a) and
\* f(b) of one strict sign: ValueError; an end where f vanishes: that end; otherwise
\* a point where f vanishes or changes sign.
brentq(f) ==
    LET n == Len(SolveGrid)
    IN  IF Sign(f[1]) * Sign(f[n]) > 0 THEN {ValueError}
        ELSE IF Sign(f[1]) = 0 THEN {[status |-> "ok", x |-> SolveGrid[1]]}
        ELSE IF Sign(f[n]) = 0 THEN {[status |-> "ok", x |-> SolveGrid[n]]}
        ELSE {[status |-> "ok", x |-> SolveGrid[k]] : k \in {l \in 1..n : RootAt(f, l)}}

\* return brentq(f=f_var_Zv, a=0, b=1, args=(PCI,Var_Zv))
get_r(Var_Zv, PCI) ==
    brentq([k \in 1..Len(SolveGrid) |-> f_var_Zv(SolveGrid[k], PCI, Var_Zv)])

\* return brentq(f=f_covar_ZvZv, a=0, b=1, args=(s,r,PCI,Covar_ZvZv))
get_ro(Covar_ZvZv, PCI, r, s) ==
    brentq([k \in 1..Len(SolveGrid) |-> f_covar_ZvZv(SolveGrid[k], s, r, PCI, Covar_ZvZv)])

\* the sum over p in 1..K of PCI[p]^2 * t^p, in exact arithmetic
RECURSIVE PowerSum(_, _, _)
PowerSum(PCI, t, K) ==
    IF K = 0 THEN I(0)
    ELSE Add(PowerSum(PCI, t, K - 1), Mul(Pow(PCI[K], 2), Pow(t, K)))

SumSq(PCI) == PowerSum(PCI, I(1), PyLen(PCI) - 1)

\* PCI vectors of 1..SolveMaxK+1 entries, at most one entry above 1
SolvePCIs ==
    UNION {{[p \in 0..K |-> IF p = 0 THEN I(0) ELSE I(b[p])] :
               b \in {c \in [1..K -> SolvePCIVals(K)] :
                         Cardinality({p \in 1..K : c[p] > 1}) <= 1}} :
           K \in 0..SolveMaxK}

SolveTargets(S) == {I(-1), I(0)} \cup {Add(S, I(d)) : d \in SolveOffsets}

InitSolve ==
    \/ /\ fn = "get_r"
       /\ \E PCI \in SolvePCIs :
             args \in [PCI : {PCI}, Var_Zv : SolveTargets(SumSq(PCI))]
       /\ ret = Pending
       /\ ana_options = AnaDefaults
    \/ /\ fn = "get_ro"
       /\ \E PCI \in SolvePCIs : \E rs \in SolveRS(PCI) :
             args \in [PCI : {PCI}, r : {rs[1]}, s : {rs[2]},
                       Covar_ZvZv : SolveTargets(PowerSum(PCI, Mul(rs[1], rs[2]), PyLen(PCI) - 1))]
       /\ ret = Pending
       /\ ana_options = AnaDefaults

Call_get_r ==
    /\ fn = "get_r"
    /\ ret = Pending
    /\ ret' \in get_r(args.Var_Zv, args.PCI)
    /\ UNCHANGED <<fn, args, ana_options>>

Call_get_ro ==
    /\ fn = "get_ro"
    /\ ret = Pending
    /\ ret' \in get_ro(args.Covar_ZvZv, args.PCI, args.r, args.s)
    /\ UNCHANGED <<fn, args, ana_options>>

NextSolve == Call_get_r \/ Call_get_ro

SpecSolve == InitSolve /\ [][NextSolve]_vars

\* the exact residuals of the call at the points of SolveGrid
ExactResidual ==
    [k \in 1..Len(SolveGrid) |->
        IF fn = "get_r"
        THEN Sub(PowerSum(args.PCI, Mul(SolveGrid[k], SolveGrid[k]), PyLen(args.PCI) - 1),
                 args.Var_Zv)
        ELSE Sub(PowerSum(args.PCI, Mul(Mul(args.r, args.s), SolveGrid[k]), PyLen(args.PCI) - 1),
                 args.Covar_ZvZv)]

\* the returned coefficient solves the exact equation, up to one step of SolveGrid
SolvesExactly ==
    \E k, l \in 1..Len(SolveGrid) :
        ret.x = SolveGrid[k] /\ Abs(l - k) <= 1 /\ RootAt(ExactResidual, l)

\* C7: for every PCI vector (with a nonzero PCI[1:]), get_r(Var_Zv, PCI) returns
\* r = 1, up to tolerance, when Var_Zv equals the sum of squares of PCI[1:], and
\* r = 0, up to tolerance, when Var_Zv = 0; in both cases the returned r satisfies
\* the sum over p >= 1 of PCI[p]^2 * r^(2p) = Var_Zv.
C7_GetREndpoints ==
    (fn = "get_r" /\ ret # Pending /\ SumSq(args.PCI) # I(0)) =>
        /\ args.Var_Zv = SumSq(args.PCI) =>
              Returned /\ ret.x \in {SolveGrid[Len(SolveGrid) - 1], SolveGrid[Len(SolveGrid)]}
                       /\ SolvesExactly
        /\ args.Var_Zv = I(0) =>
              Returned /\ ret.x \in {SolveGrid[1], SolveGrid[2]} /\ SolvesExactly

\* a call of get_r on the sum of squares of PCI[1:] that ends in ValueError
C7_RaisedOnExactVariance ==
    /\ fn = "get_r"
    /\ args.PCI = [p \in 0..1 |-> IF p = 0 THEN I(0) ELSE I(4097)]
    /\ args.Var_Zv = I(16785409)
    /\ ret = ValueError

\* C8: get_r and get_ro end in an error and return no coefficient whenever the
\* target is negative or greater than the residual's sum at the upper end of the
\* bracket (get_r: Var_Zv < 0 or Var_Zv > sum of PCI[1:]^2; get_ro: Covar_ZvZv < 0
\* or Covar_ZvZv > sum over p >= 1 of PCI[p]^2 (r*s)^p); whenever they return, the
\* value lies in [0, 1] and is a root of the residual.
C8_ErrorOrRoot ==
    (fn \in {"get_r", "get_ro"} /\ ret # Pending) =>
        LET target == IF fn = "get_r" THEN args.Var_Zv ELSE args.Covar_ZvZv
            top == IF fn = "get_r" THEN SumSq(args.PCI)
                   ELSE PowerSum(args.PCI, Mul(args.r, args.s), PyLen(args.PCI) - 1)
        IN  /\ (Lt(target, I(0)) \/ Gt(target, top)) => ret = ValueError
            /\ Returned => Ge(ret.x, I(0)) /\ Le(ret.x, I(1)) /\ SolvesExactly

\* a call of get_r on a variance above the sum of squares of PCI[1:] that returns
C8_ReturnedAboveSum ==
    /\ fn = "get_r"
    /\ PyLen(args.PCI) = 4
    /\ args.PCI[3] = I(4097)
    /\ Gt(args.Var_Zv, SumSq(args.PCI))
    /\ Returned
    /\ ret.x = I(1)

(***************************************************************************)
(* The preconditions of recurrentH and fit_PCI, over the calls of both.    *)
(***************************************************************************)
InitPre == InitHermite \/ InitFit

NextPre == Call_recurrentH \/ Call_fit_PCI

SpecPre == InitPre /\ [][NextPre]_vars

\* C11: precondition violations are rejected before any result is produced:
\* recurrentH called with K < 1 ends in an error and returns no matrix, and fit_PCI
\* called with len(y), len(z) and the column count of H not all equal ends in an
\* error and returns neither PCI nor g.
C11_PreconditionsRejected ==
    /\ (fn = "recurrentH" /\ ret # Pending /\ args.K < 1) => ret = AssertionError
    /\ (fn = "fit_PCI" /\ ret # Pending
          /\ ~(PyLen(args.y) = PyLen(args.z) /\ PyLen(args.z) = PyLen(args.H[0])))
       => ret = AssertionError

\* fit_PCI rejected for the column count of H alone, y and z being of one length
C11_Witness ==
    /\ fn = "fit_PCI"
    /\ PyLen(args.y) = PyLen(args.z)
    /\ PyLen(args.H[0]) # PyLen(args.z)
    /\ ret = AssertionError

\* recurrentH rejected for K = 0
C11_WitnessK ==
    /\ fn = "recurrentH"
    /\ args.K = 0
    /\ PyLen(args.y) > 0
    /\ ret = AssertionError

(***************************************************************************)
(* The wrappers ttable, backtr and stats.  The external routine's outputs  *)
(* and error code are inputs of the call.                                  *)
(***************************************************************************)
\* error codes the external routines report
WrapCodes == {-2, -1, 0, 1, 2}

WrapVals == {0, 1}

\* the failed assert with the formatted code in its message
AssertionErrorWith(error) == [status |-> "error", kind |-> "AssertionError", code |-> error]

\* transin,transout, error = ...ns_ttable(z,w); assert error < 1, '...error = {}...';
\* return transin,transout
ttable(out, error) ==
    IF ~(error < 1) THEN AssertionErrorWith(error)
    ELSE [status |-> "ok", transin |-> out.transin, transout |-> out.transout]

\* z, error= ...backtr(...); assert error < 1, '...error = {}...'; return z
backtr(out, error) ==
    IF ~(error < 1) THEN AssertionErrorWith(error)
    ELSE [status |-> "ok", z |-> out.z]

\* binval,...,xmin,xmax,xcvr,xmen,xvar,error = ...probplt(...); assert error < 1, ...;
\* if report: print ...; return xmin,xmax, xcvr,xmen,xvar
stats(out, error, report) ==
    IF ~(error < 1) THEN AssertionErrorWith(error)
    ELSE [status |-> "ok", xmin |-> out.xmin, xmax |-> out.xmax, xcvr |-> out.xcvr,
          xmen |-> out.xmen, xvar |-> out.xvar]

InitWrap ==
    \/ /\ fn = "ttable"
       /\ args \in [out : [transin : WrapVals, transout : WrapVals], error : WrapCodes]
       /\ ret = Pending
       /\ ana_options = AnaDefaults
    \/ /\ fn = "backtr"
       /\ args \in [out : [z : WrapVals], error : WrapCodes]
       /\ ret = Pending
       /\ ana_options = AnaDefaults
    \/ /\ fn = "stats"
       /\ args \in [out : [xmed : WrapVals, xmin : WrapVals, xmax : WrapVals, xcvr : WrapVals,
                           xmen : WrapVals, xvar : WrapVals],
                    error : WrapCodes, report : BOOLEAN]
       /\ ret = Pending
       /\ ana_options = AnaDefaults

Call_ttable ==
    /\ fn = "ttable"
    /\ ret = Pending
    /\ ret' = ttable(args.out, args.error)
    /\ UNCHANGED <<fn, args, ana_options>>

Call_backtr ==
    /\ fn = "backtr"
    /\ ret = Pending
    /\ ret' = backtr(args.out, args.error)
    /\ UNCHANGED <<fn, args, ana_options>>

Call_stats ==
    /\ fn = "stats"
    /\ ret = Pending
    /\ ret' = stats(args.out, args.error, args.report)
    /\ UNCHANGED <<fn, args, ana_options>>

NextWrap == Call_ttable \/ Call_backtr \/ Call_stats

SpecWrap == InitWrap /\ [][NextWrap]_vars

\* C12: ttable, backtr and stats end in an error whose message holds the error code
\* whenever the external computation reports a nonzero code, positive or negative,
\* and return a result only when the reported code is zero.
C12_NonzeroCodeFails ==
    (fn \in {"ttable", "backtr", "stats"} /\ ret # Pending) =>
        /\ args.error # 0 => ret = AssertionErrorWith(args.error)
        /\ Returned => args.error = 0

\* C12, the part that holds: a positive code ends in the error that names it, and a
\* code of zero returns the external routine's outputs.
C12_PositiveCodeFails ==
    (fn \in {"ttable", "backtr", "stats"} /\ ret # Pending) =>
        /\ args.error > 0 => ret = AssertionErrorWith(args.error)
        /\ args.error = 0 => Returned

\* a wrapper returning a result on a negative code
C12_ReturnedOnNegativeCode ==
    /\ fn = "ttable"
    /\ args.error = -1
    /\ Returned
    /\ ret.transin = args.out.transin

(***************************************************************************)
(* The midpoint scans of calautorized and calautorized_blk on the curves   *)
(* of length 4 and more, whose loops all run.                              *)
(***************************************************************************)
ScanMaxN == 6

\* practical bounds of calautorized: the defaults, and the middle of LocVals for both
ScanOpts == {<<None, None>>, <<Some(1), Some(1)>>}

InitScan ==
    /\ ret = Pending
    /\ ana_options = AnaDefaults
    /\ \E N \in 4..ScanMaxN :
          \/ /\ fn = "calautorized"
             /\ \E o \in ScanOpts :
                   args \in [zana : Curves(N), zraw : RawCurves(N), gauss : {Grid(N)},
                             zpmin : {o[1]}, zpmax : {o[2]}]
          \/ /\ fn = "calautorized_blk"
             /\ args \in [zana : Curves(N), gauss : {Grid(N)}, zpmin : LocVals, zpmax : LocVals]

NextScan == Call_calautorized \/ Call_calautorized_blk

SpecScan == InitScan /\ [][NextScan]_vars

\* the lower and upper practical values the scans of the call compare with
ScanLow == IF fn = "calautorized" THEN args.zraw[ret.ii] ELSE args.zpmin

ScanHigh == IF fn = "calautorized" THEN args.zraw[ret.jj] ELSE args.zpmax

\* the k at which the lower neighbour fails the compound test
FailsLow ==
    {k \in 2..Mid(args.zana) :
        \/ args.zana[k - 1] < ScanLow
        \/ args.zana[k - 1] > args.zana[k]
        \/ args.gauss[k - 1] < args.gauss[ret.ii]}

\* the k at which the upper neighbour fails the compound test
FailsHigh ==
    {k \in Mid(args.zana)..(PyLen(args.zana) - 2) :
        \/ args.zana[k + 1] > ScanHigh
        \/ args.zana[k + 1] < args.zana[k]
        \/ args.gauss[k + 1] > args.gauss[ret.jj]}

Greatest(S) == CHOOSE x \in S : \A y \in S : x >= y

Least(S) == CHOOSE x \in S : \A y \in S : x <= y

\* C13: in calautorized and calautorized_blk (N >= 4) the authorized indices are
\* first-match results of one pass from the midpoint m = floor(N/2): i is the first
\* k in the order m, m-1, ..., 2 at which the lower neighbour fails the compound
\* test, and 2 if none fails; j is the first k in the order m, m+1, ..., N-2 at
\* which the upper neighbour fails, and N-2 if none fails.
C13_FirstMatch ==
    (fn \in {"calautorized", "calautorized_blk"} /\ Returned /\ PyLen(args.zana) >= 4) =>
        /\ ret.i = (IF FailsLow = {} THEN 2 ELSE Greatest(FailsLow))
        /\ ret.j = (IF FailsHigh = {} THEN PyLen(args.zana) - 2 ELSE Least(FailsHigh))

\* both scans stopping at the midpoint although the next k fails as well
C13_Witness ==
    /\ fn = "calautorized"
    /\ Returned
    /\ PyLen(args.zana) = 6
    /\ FailsLow = {2, 3}
    /\ ret.i = 3
    /\ FailsHigh = {3, 4}
    /\ ret.j = 3

\* both scans passing the midpoint and stopping at the next k
C13_WitnessPassed ==
    /\ fn = "calautorized_blk"
    /\ Returned
    /\ PyLen(args.zana) = 6
    /\ FailsLow = {2}
    /\ ret.i = 2
    /\ FailsHigh = {4}
    /\ ret.j = 4

\* the practical bounds of the call of calautorized: given, or min(zraw) and max(zraw)
GivenOrMin == IF args.zpmin = None THEN Least({args.zraw[k] : k \in DOMAIN args.zraw})
              ELSE args.zpmin[1]

GivenOrMax == IF args.zpmax = None THEN Greatest({args.zraw[k] : k \in DOMAIN args.zraw})
              ELSE args.zpmax[1]

\* C14: for every zraw of length N >= 2 and every pair of practical bounds (given,
\* or defaulting to min(zraw) and max(zraw)), calautorized returns ii equal to the
\* smallest index whose value crosses the lower threshold (zraw[ii] > zpmin, with
\* zraw[k] <= zpmin for all k < ii) and jj equal to the largest index whose value
\* crosses the upper threshold (zraw[jj] < zpmax, with zraw[k] >= zpmax for all
\* k > jj).
C14_PracticalIndices ==
    (fn = "calautorized" /\ Returned) =>
        /\ args.zraw[ret.ii] > GivenOrMin
        /\ \A k \in 0..(ret.ii - 1) : args.zraw[k] <= GivenOrMin
        /\ args.zraw[ret.jj] < GivenOrMax
        /\ \A k \in (ret.jj + 1)..(PyLen(args.zraw) - 1) : args.zraw[k] >= GivenOrMax

\* C14, the part that holds: ii is the smallest index in 0..N-2 whose value is above
\* zpmin, and N-2 if there is none; jj is the largest index in 1..N-1 whose value is
\* below zpmax, and 1 if there is none.
C14_ScanOrFallThrough ==
    (fn = "calautorized" /\ Returned) =>
        LET N == PyLen(args.zraw)
            above == {k \in 0..(N - 2) : args.zraw[k] > GivenOrMin}
            below == {k \in 1..(N - 1) : args.zraw[k] < GivenOrMax}
        IN  /\ ret.ii = (IF above = {} THEN N - 2 ELSE Least(above))
            /\ ret.jj = (IF below = {} THEN 1 ELSE Greatest(below))

\* the default bounds on a zraw that rises at its last index only: ii falls through
C14_FellThrough ==
    /\ fn = "calautorized"
    /\ Returned
    /\ args.zpmin = None
    /\ args.zpmax = None
    /\ PyLen(args.zraw) = 4
    /\ args.zraw[2] < args.zraw[3]
    /\ args.zraw[0] = args.zraw[2]
    /\ ret.ii = 2
    /\ ret.jj = 2

\* C15: for every quadruple returned by calautorized or calautorized_blk on a curve
\* of length N >= 4, the analytic curve is non-decreasing over the whole authorized
\* interval: zana[k] <= zana[k+1] for every k with i <= k < j, whether or not either
\* scan stopped early.
C15_MonotoneAuthorized ==
    (fn \in {"calautorized", "calautorized_blk"} /\ Returned /\ PyLen(args.zana) >= 4) =>
        \A k \in ret.i..(ret.j - 1) : args.zana[k] <= args.zana[k + 1]

\* an authorized interval of three points that rises, the lower scan stopped by a
\* decreasing neighbour
C15_Witness ==
    /\ fn = "calautorized_blk"
    /\ Returned
    /\ PyLen(args.zana) = 6
    /\ ret.i = 2
    /\ ret.j = 4
    /\ args.zana[1] > args.zana[2]
    /\ args.zana[2] < args.zana[4]

\* the four entry assertions of findcontrolpoints hold of the call's arguments
FcpEntryHolds ==
    /\ args.zamax < args.zamin
    /\ args.zpmax < args.zpmin
    /\ args.zamax <= args.zpmax
    /\ args.zamin >= args.zpmin

\* C16: for every grid length N >= 5 with zraw non-decreasing and gauss strictly
\* increasing, no call of findcontrolpoints whose arguments pass its four entry
\* assertions returns a quadruple: whatever zana is, an exit assertion fails.
C16_NeverReturnsFromFive ==
    (fn = "findcontrolpoints" /\ ret # Pending /\ PyLen(args.zana) >= 5 /\ FcpEntryHolds)
        => ret = AssertionError

\* a call on a grid of length 5 that passes the entry assertions and ends in an
\* error, zana lying within the practical values at both ends
C16_Witness ==
    /\ fn = "findcontrolpoints"
    /\ PyLen(args.zana) = 5
    /\ FcpEntryHolds
    /\ args.zana = args.zraw
    /\ args.zraw[0] < args.zraw[4]
    /\ ret = AssertionError

\* a call on a grid of length 4 that passes the entry assertions and returns
C16_ReturnsOnFour ==
    /\ fn = "findcontrolpoints"
    /\ PyLen(args.zana) = 4
    /\ FcpEntryHolds
    /\ Returned

\* C17: for every curve length N >= 4 and every input, the three locators (when
\* they return) give 2 <= i <= floor(N/2) <= j <= N-2, and the two locators that
\* scan zraw give 0 <= ii <= N-2 and 1 <= jj <= N-1: the authorized bounds never
\* reach positions 0, 1 or N-1 and no returned index is out of range or unassigned.
C17_IndexRanges ==
    (fn \in {"calautorized", "calautorized_blk", "findcontrolpoints"} /\ Returned
        /\ PyLen(args.zana) >= 4) =>
        LET N == PyLen(args.zana)
        IN  /\ 2 <= ret.i /\ ret.i <= N \div 2
            /\ N \div 2 <= ret.j /\ ret.j <= N - 2
            /\ ret.ii \in 0..(N - 1) /\ ret.jj \in 0..(N - 1)
            /\ fn # "calautorized_blk" =>
                  /\ 0 <= ret.ii /\ ret.ii <= N - 2
                  /\ 1 <= ret.jj /\ ret.jj <= N - 1

\* the practical indices at the far ends of their ranges, the authorized at the near
C17_Witness ==
    /\ fn = "calautorized"
    /\ Returned
    /\ PyLen(args.zana) = 5
    /\ ret.ii = 3
    /\ ret.jj = 1
    /\ ret.i = 2
    /\ ret.j = 2

\* the upper authorized index at the far end of its range
C17_WitnessUpper ==
    /\ fn = "calautorized_blk"
    /\ Returned
    /\ PyLen(args.zana) = 5
    /\ ret.j = 3
    /\ ret.i = 2

\* the anchors of the call are in strict order, in z and in y
Z2Y_AnchorsOrdered ==
    LET a == args.a
    IN  /\ Lt(a.zamin, a.zpmin) /\ Lt(a.zpmin, a.zpmax) /\ Lt(a.zpmax, a.zamax)
        /\ Lt(a.yamin, a.ypmin) /\ Lt(a.ypmin, a.ypmax) /\ Lt(a.ypmax, a.yamax)

\* zm and ym of the call are strictly increasing
Z2Y_TableIncreasing ==
    \A k \in 0..(PyLen(args.zm) - 2) :
        Lt(args.zm[k], args.zm[k + 1]) /\ Lt(args.ym[k], args.ym[k + 1])

\* the table stays within the practical Gaussian bounds between the practical z bounds
Z2Y_TableWithin ==
    /\ Ge(TableValue(args.a.zpmin, args.zm, args.ym), args.a.ypmin)
    /\ Le(TableValue(args.a.zpmax, args.zm, args.ym), args.a.ypmax)

\* C18 as claimed: Z2Y_linear is non-decreasing and bounded: for all anchors with
\* zamin < zpmin < zpmax < zamax and yamin < ypmin < ypmax < yamax and every table
\* with zm and ym strictly increasing, z1 <= z2 implies Z2Y_linear(z1) <=
\* Z2Y_linear(z2), and every output lies in [yamin, yamax].
C18_MonotoneBounded ==
    (fn = "Z2Y_linear" /\ Returned /\ Z2Y_AnchorsOrdered /\ Z2Y_TableIncreasing) =>
        /\ \A i, j \in DOMAIN args.z : Le(args.z[i], args.z[j]) => Le(ret.Y[i], ret.Y[j])
        /\ \A i \in DOMAIN args.z : Ge(ret.Y[i], args.a.yamin) /\ Le(ret.Y[i], args.a.yamax)

\* C18 amended: the same, for the tables whose interpolated value is at least ypmin
\* at zpmin and at most ypmax at zpmax, and for the inputs that are numbers.
C18_MonotoneBoundedWithin ==
    (fn = "Z2Y_linear" /\ Returned /\ Z2Y_AnchorsOrdered /\ Z2Y_TableIncreasing
        /\ Z2Y_TableWithin) =>
        /\ \A i, j \in DOMAIN args.z : Le(args.z[i], args.z[j]) => Le(ret.Y[i], ret.Y[j])
        /\ \A i \in DOMAIN args.z :
              ~isnan(args.z[i]) => Ge(ret.Y[i], args.a.yamin) /\ Le(ret.Y[i], args.a.yamax)

\* ordered anchors and a table within them: an input below the practical interval
\* and one inside it, mapped in order and strictly inside [yamin, yamax]
C18_Witness ==
    /\ fn = "Z2Y_linear"
    /\ Returned
    /\ Z2Y_AnchorsOrdered /\ Z2Y_TableIncreasing /\ Z2Y_TableWithin
    /\ PyLen(args.z) = 2
    /\ ret.fired[0] = <<3>>
    /\ ret.fired[1] = <<5>>
    /\ Lt(args.z[0], args.z[1])
    /\ Lt(args.a.yamin, ret.Y[0])
    /\ Lt(ret.Y[0], ret.Y[1])
    /\ Lt(ret.Y[1], args.a.yamax)

\* C19: the second output g of fit_PCI is the standard normal density at every grid
\* point: g has length N and g[i] = phi(y[i]), a strictly positive value, for every
\* index i in 0..N-1, for every Hermite matrix with at least one row.
C19_DensityEverywhere ==
    (fn = "fit_PCI" /\ Returned) =>
        /\ PyLen(ret.g) = PyLen(args.y)
        /\ \A i \in DOMAIN args.y : ret.g[i] = stnormpdf(args.y[i]) /\ Gt(ret.g[i], I(0))

\* what the loops do assign: with two rows or more the density from index 1 on, and
\* nothing at index 0; with one row nothing at all
C19_DensityFromOne ==
    (fn = "fit_PCI" /\ Returned) =>
        /\ PyLen(ret.g) = PyLen(args.y)
        /\ \A i \in DOMAIN args.y :
              ret.g[i] = (IF PyLen(args.H) >= 2 /\ i >= 1 THEN stnormpdf(args.y[i]) ELSE I(0))

\* a matrix of two rows or more: g[1] is the density of y[1], g[0] is still 0
C19_FirstLeftAtZero ==
    /\ fn = "fit_PCI"
    /\ Returned
    /\ PyLen(args.H) >= 2
    /\ PyLen(args.y) >= 2
    /\ ret.g[0] = I(0)
    /\ ret.g[1] = stnormpdf(args.y[1])

(***************************************************************************)
(* The plotting drivers anamor, anamor_blk and anamor_raw.  Each binds the *)
(* name options to the module-level dictionary ana_options and updates it  *)
(* with its keyword arguments, then draws its curves in the styles it      *)
(* reads from options.  Their numerical steps are calls of the functions   *)
(* above and touch no module-level name; a result here is the list of the  *)
(* styles of the curves drawn, in drawing order.                           *)
(***************************************************************************)
StyleKeys == {"dt_pt_color", "ana_pt_color", "ex_ana_pt_line"}

StyleVals == {"blue", ":"}

\* the **kwargs of a call: any of the keys, each with a value of the caller's
StyleKwargs == UNION {[S -> StyleVals] : S \in SUBSET StyleKeys}

\* d.update(kwargs), the dictionary d after it
DictUpdate(d, kwargs) ==
    [k \in DOMAIN d \cup DOMAIN kwargs |-> IF k \in DOMAIN kwargs THEN kwargs[k] ELSE d[k]]

\* ax.plot(..., options[line], color = options[color], label = options[label])
Style(options, line, color, label) ==
    [line |-> options[line], color |-> options[color], label |-> options[label]]

anamor(options) ==
    [status |-> "ok",
     curves |-> <<Style(options, "dt_pt_line", "dt_pt_color", "dt_pt_label"),
                  Style(options, "ex_pt_line", "ex_pt_color", "ex_pt_label"),
                  Style(options, "ana_pt_line", "ana_pt_color", "ana_pt_label"),
                  Style(options, "ex_ana_pt_line", "ex_ana_pt_color", "ex_ana_pt_label")>>]

anamor_blk(options, raw, zana) ==
    [status |-> "ok",
     curves |-> (IF raw # None THEN <<Style(options, "ex_pt_line", "ex_pt_color", "ex_pt_label")>>
                 ELSE <<>>)
                \o (IF zana # None
                    THEN <<Style(options, "ana_pt_line", "ana_pt_color", "ana_pt_label")>>
                    ELSE <<>>)
                \o <<Style(options, "ex_ana_pt_line", "ex_ana_pt_color", "ex_ana_pt_label"),
                     Style(options, "ana_blk_line", "ana_blk_color", "ana_blk_label"),
                     Style(options, "ex_ana_blk_line", "ex_ana_blk_color", "ex_ana_blk_label")>>]

anamor_raw(options) ==
    [status |-> "ok",
     curves |-> <<Style(options, "dt_pt_line", "dt_pt_color", "dt_pt_label"),
                  Style(options, "ana_pt_line", "ana_pt_color", "ana_pt_label")>>]

Drivers == {"anamor", "anamor_blk", "anamor_raw"}

\* the arguments of a call of a driver, as far as the styles depend on them
DriverCalls ==
    {<<"anamor", a>> : a \in [kwargs : StyleKwargs]}
    \cup {<<"anamor_blk", a>> :
            a \in [kwargs : StyleKwargs, raw : {None, Some(0)}, zana : {None, Some(0)}]}
    \cup {<<"anamor_raw", a>> : a \in [kwargs : StyleKwargs]}

InitOptions ==
    /\ \E c \in DriverCalls : fn = c[1] /\ args = c[2]
    /\ ret = Pending
    /\ ana_options = AnaDefaults

\* options = ana_options; options.update(kwargs): options is the module's dictionary
Call_anamor ==
    /\ fn = "anamor"
    /\ ret = Pending
    /\ ana_options' = DictUpdate(ana_options, args.kwargs)
    /\ ret' = anamor(ana_options')
    /\ UNCHANGED <<fn, args>>

Call_anamor_blk ==
    /\ fn = "anamor_blk"
    /\ ret = Pending
    /\ ana_options' = DictUpdate(ana_options, args.kwargs)
    /\ ret' = anamor_blk(ana_options', args.raw, args.zana)
    /\ UNCHANGED <<fn, args>>

Call_anamor_raw ==
    /\ fn = "anamor_raw"
    /\ ret = Pending
    /\ ana_options' = DictUpdate(ana_options, args.kwargs)
    /\ ret' = anamor_raw(ana_options')
    /\ UNCHANGED <<fn, args>>

\* the caller, after one driver has returned, calls a driver again
NextDriverCall ==
    /\ fn \in Drivers
    /\ Returned
    /\ \E c \in DriverCalls : fn' = c[1] /\ args' = c[2]
    /\ ret' = Pending
    /\ UNCHANGED ana_options

NextOptions == Call_anamor \/ Call_anamor_blk \/ Call_anamor_raw \/ NextDriverCall

SpecOptions == InitOptions /\ [][NextOptions]_vars

\* the curves a driver draws when its options are the dictionary d
DriverCurves(d) ==
    CASE fn = "anamor" -> anamor(d).curves
      [] fn = "anamor_blk" -> anamor_blk(d, args.raw, args.zana).curves
      [] fn = "anamor_raw" -> anamor_raw(d).curves

\* C20: after any sequence of calls to anamor, anamor_blk and anamor_raw the
\* module-level defaults ana_options are unchanged: the style options in effect for
\* a call are the defaults overridden only by that call's own keyword arguments, so
\* an override passed to one call never affects a later call that does not pass it.
C20_DefaultsUnchanged ==
    fn \in Drivers =>
        /\ ana_options = AnaDefaults
        /\ Returned => ret.curves = DriverCurves(DictUpdate(AnaDefaults, args.kwargs))

\* what the code does: the options in effect are the module's dictionary, which
\* holds the call's keyword arguments over whatever the calls before left in it
C20_OverridesAccumulate ==
    (fn \in Drivers /\ Returned) =>
        /\ ret.curves = DriverCurves(ana_options)
        /\ \A k \in DOMAIN args.kwargs : ana_options[k] = args.kwargs[k]
        /\ \A k \in DOMAIN AnaDefaults :
              ana_options[k] = AnaDefaults[k] \/ ana_options[k] \in StyleVals

\* a call without keyword arguments draws the data in the colour an earlier call chose
C20_OverrideLeaks ==
    /\ fn = "anamor_raw"
    /\ Returned
    /\ args.kwargs = <<>>
    /\ ret.curves[1].color = "blue"
    /\ ana_options["dt_pt_color"] = "blue"

=============================================================================
